---- MODULE Spec2Model ----
(***************************************************************************)
(* Poultry investment platform: the wallet ledger (deposit, purchase of    *)
(* batch units, creation of batches) and the batch payout engine           *)
(* (simulate, execute), as the request handlers of backend/app/routers and *)
(* backend/app/services run them against one relational store.             *)
(*                                                                         *)
(* Units.  An amount of money the store holds (wallet balance, deposit,    *)
(* unit price, principal of an investment) is a whole number of currency   *)
(* units: 3 stands for 3.0.  A return multiplier is counted in             *)
(* ten-thousandths: 12 stands for 0.0012, 1200 for the column default      *)
(* 0.12.  So principal * roi is counted in ten-thousandths of the currency *)
(* unit, and round(x, 2) yields hundredths (cents): a payout amount and a  *)
(* simulated total are counted in cents.                                   *)
(*                                                                         *)
(* The source computes in binary floating point.  Sums, differences and    *)
(* products of whole numbers are exact there, so the ledger's integer      *)
(* arithmetic is the source's; the two floats that are no numbers, inf and *)
(* nan, which a request may carry, are values of their own (Inf, NaN).     *)
(* round(x, 2) of a product rounds the binary value of the product: off a  *)
(* tie this is the nearest cent; on a tie (x ending in 50) the binary      *)
(* value lies just above or just below, depending on the operands, and     *)
(* either neighbour may result.                                            *)
(*                                                                         *)
(* Every handler runs in its own persistence session.  A session reads the *)
(* committed rows when it queries, keeps its changes in memory, and on     *)
(* commit writes the columns whose value it changed; a commit is atomic    *)
(* and expires what the session had loaded.  Handlers of different         *)
(* requests interleave between their session operations.                   *)
(***************************************************************************)
EXTENDS Integers, Sequences, FiniteSets

\* ---------------------------------------------------------------- bounds
MaxInvestments == 2     \* investment rows the store may hold
MaxExecCalls == 2       \* invocations of execute_payout_for_batch
MaxBalance == 9         \* largest finite rise of the balance above the opening one
MaxBatchSize == 2       \* investments of the batch a payout is requested for
MaxBatches == 2         \* batch rows the store may hold

\* ---------------------------------------------------------------- values
\* A nullable column or an Optional argument: NULL, or the set of its value.
NULL == {}
Some(x) == {x}
Val(v) == CHOOSE x \in v : TRUE

\* The floats that are not finite, as integers beyond every finite amount.
Inf == 1000000000
NegInf == -1000000000
NaN == 2000000000

finite(x) == x \notin {Inf, NegInf, NaN}

\* a + b on floats.
float_add(a, b) ==
    IF a = NaN \/ b = NaN THEN NaN
    ELSE IF a = Inf THEN (IF b = NegInf THEN NaN ELSE Inf)
    ELSE IF a = NegInf THEN (IF b = Inf THEN NaN ELSE NegInf)
    ELSE IF \lnot finite(b) THEN b
    ELSE a + b

\* -a on floats.
float_neg(a) ==
    IF a = NaN THEN NaN
    ELSE IF a = Inf THEN NegInf
    ELSE IF a = NegInf THEN Inf
    ELSE -a

\* a - b on floats.
float_sub(a, b) == float_add(a, float_neg(b))

\* a * k on floats, k an int.
float_mul(a, k) ==
    IF a = NaN THEN NaN
    ELSE IF \lnot finite(a)
         THEN (IF k = 0 THEN NaN ELSE IF k > 0 THEN a ELSE float_neg(a))
    ELSE a * k

\* a < b on floats: FALSE as soon as one of them is nan.
float_lt(a, b) ==
    /\ a # NaN /\ b # NaN
    /\ a # b
    /\ a # Inf /\ b # NegInf
    /\ (a = NegInf \/ b = Inf \/ a < b)

\* a <= b on floats.
float_le(a, b) == a # NaN /\ b # NaN /\ (a = b \/ float_lt(a, b))

\* a == b on floats, as the unit of work compares the loaded and the new
\* value of a column: nan equals nothing.
float_eq(a, b) == a # NaN /\ b # NaN /\ a = b

Procs == {"r1", "r2"}            \* requests being served at the same time
BatchId == 1                     \* the batch row the store starts with
BatchIds == {1, 2}               \* batch ids a request may name
UnitPrice == 3                   \* Batch.unit_price of the first batch row
DemoBalance == 1000              \* Wallet.balance of a user created by login
DefaultRoi == 1200               \* BatchIn.expected_roi, default 0.12
DepositAmounts == {-5, 0, 6, NaN, Inf}   \* deposit(amount: float)
FiniteDeposits == {-5, 0, 6}             \* those of them that are numbers
UnitChoices == {-1, 0, 1, 2}     \* InvestmentIn.units: any integer
BatchRois == {NULL, Some(12)}    \* Batch.expected_roi: nullable
Overrides == {NULL, Some(40)}    \* roi_override: Optional[float]

\* A str is the sequence of its code points: <<69, 71, 71>> is "EGG".
\* str.upper() maps every code point to its upper case, which is one code
\* point or several (223, the sharp s, becomes 83, 83) and does not depend
\* on the neighbours.  upper_runs lists the code points whose upper case is
\* one other code point, as runs <<first, last, step, offset>>;
\* upper_special those whose upper case is several code points.  (Unicode
\* 14.0.0, the character database of the interpreter, Python 3.11.)
upper_runs ==
    {<<97, 122, 1, -32>>, <<181, 181, 1, 743>>, <<224, 246, 1, -32>>,
     <<248, 254, 1, -32>>, <<255, 255, 1, 121>>, <<257, 303, 2, -1>>,
     <<305, 305, 1, -232>>, <<307, 311, 2, -1>>, <<314, 328, 2, -1>>,
     <<331, 375, 2, -1>>, <<378, 382, 2, -1>>, <<383, 383, 1, -300>>,
     <<384, 384, 1, 195>>, <<387, 389, 2, -1>>, <<392, 392, 1, -1>>,
     <<396, 396, 1, -1>>, <<402, 402, 1, -1>>, <<405, 405, 1, 97>>,
     <<409, 409, 1, -1>>, <<410, 410, 1, 163>>, <<414, 414, 1, 130>>,
     <<417, 421, 2, -1>>, <<424, 424, 1, -1>>, <<429, 429, 1, -1>>,
     <<432, 432, 1, -1>>, <<436, 438, 2, -1>>, <<441, 441, 1, -1>>,
     <<445, 445, 1, -1>>, <<447, 447, 1, 56>>, <<453, 453, 1, -1>>,
     <<454, 454, 1, -2>>, <<456, 456, 1, -1>>, <<457, 457, 1, -2>>,
     <<459, 459, 1, -1>>, <<460, 460, 1, -2>>, <<462, 476, 2, -1>>,
     <<477, 477, 1, -79>>, <<479, 495, 2, -1>>, <<498, 498, 1, -1>>,
     <<499, 499, 1, -2>>, <<501, 501, 1, -1>>, <<505, 543, 2, -1>>,
     <<547, 563, 2, -1>>, <<572, 572, 1, -1>>, <<575, 576, 1, 10815>>,
     <<578, 578, 1, -1>>, <<583, 591, 2, -1>>, <<592, 592, 1, 10783>>,
     <<593, 593, 1, 10780>>, <<594, 594, 1, 10782>>, <<595, 595, 1, -210>>,
     <<596, 596, 1, -206>>, <<598, 599, 1, -205>>, <<601, 601, 1, -202>>,
     <<603, 603, 1, -203>>, <<604, 604, 1, 42319>>, <<608, 608, 1, -205>>,
     <<609, 609, 1, 42315>>, <<611, 611, 1, -207>>, <<613, 613, 1, 42280>>,
     <<614, 614, 1, 42308>>, <<616, 616, 1, -209>>, <<617, 617, 1, -211>>,
     <<618, 618, 1, 42308>>, <<619, 619, 1, 10743>>, <<620, 620, 1, 42305>>,
     <<623, 623, 1, -211>>, <<625, 625, 1, 10749>>, <<626, 626, 1, -213>>,
     <<629, 629, 1, -214>>, <<637, 637, 1, 10727>>, <<640, 640, 1, -218>>,
     <<642, 642, 1, 42307>>, <<643, 643, 1, -218>>, <<647, 647, 1, 42282>>,
     <<648, 648, 1, -218>>, <<649, 649, 1, -69>>, <<650, 651, 1, -217>>,
     <<652, 652, 1, -71>>, <<658, 658, 1, -219>>, <<669, 669, 1, 42261>>,
     <<670, 670, 1, 42258>>, <<837, 837, 1, 84>>, <<881, 883, 2, -1>>,
     <<887, 887, 1, -1>>, <<891, 893, 1, 130>>, <<940, 940, 1, -38>>,
     <<941, 943, 1, -37>>, <<945, 961, 1, -32>>, <<962, 962, 1, -31>>,
     <<963, 971, 1, -32>>, <<972, 972, 1, -64>>, <<973, 974, 1, -63>>,
     <<976, 976, 1, -62>>, <<977, 977, 1, -57>>, <<981, 981, 1, -47>>,
     <<982, 982, 1, -54>>, <<983, 983, 1, -8>>, <<985, 1007, 2, -1>>,
     <<1008, 1008, 1, -86>>, <<1009, 1009, 1, -80>>, <<1010, 1010, 1, 7>>,
     <<1011, 1011, 1, -116>>, <<1013, 1013, 1, -96>>, <<1016, 1016, 1, -1>>,
     <<1019, 1019, 1, -1>>, <<1072, 1103, 1, -32>>, <<1104, 1119, 1, -80>>,
     <<1121, 1153, 2, -1>>, <<1163, 1215, 2, -1>>, <<1218, 1230, 2, -1>>,
     <<1231, 1231, 1, -15>>, <<1233, 1327, 2, -1>>, <<1377, 1414, 1, -48>>,
     <<4304, 4346, 1, 3008>>, <<4349, 4351, 1, 3008>>, <<5112, 5117, 1, -8>>,
     <<7296, 7296, 1, -6254>>, <<7297, 7297, 1, -6253>>,
     <<7298, 7298, 1, -6244>>, <<7299, 7300, 1, -6242>>,
     <<7301, 7301, 1, -6243>>, <<7302, 7302, 1, -6236>>,
     <<7303, 7303, 1, -6181>>, <<7304, 7304, 1, 35266>>,
     <<7545, 7545, 1, 35332>>, <<7549, 7549, 1, 3814>>,
     <<7566, 7566, 1, 35384>>, <<7681, 7829, 2, -1>>, <<7835, 7835, 1, -59>>,
     <<7841, 7935, 2, -1>>, <<7936, 7943, 1, 8>>, <<7952, 7957, 1, 8>>,
     <<7968, 7975, 1, 8>>, <<7984, 7991, 1, 8>>, <<8000, 8005, 1, 8>>,
     <<8017, 8023, 2, 8>>, <<8032, 8039, 1, 8>>, <<8048, 8049, 1, 74>>,
     <<8050, 8053, 1, 86>>, <<8054, 8055, 1, 100>>, <<8056, 8057, 1, 128>>,
     <<8058, 8059, 1, 112>>, <<8060, 8061, 1, 126>>, <<8112, 8113, 1, 8>>,
     <<8126, 8126, 1, -7205>>, <<8144, 8145, 1, 8>>, <<8160, 8161, 1, 8>>,
     <<8165, 8165, 1, 7>>, <<8526, 8526, 1, -28>>, <<8560, 8575, 1, -16>>,
     <<8580, 8580, 1, -1>>, <<9424, 9449, 1, -26>>, <<11312, 11359, 1, -48>>,
     <<11361, 11361, 1, -1>>, <<11365, 11365, 1, -10795>>,
     <<11366, 11366, 1, -10792>>, <<11368, 11372, 2, -1>>,
     <<11379, 11379, 1, -1>>, <<11382, 11382, 1, -1>>,
     <<11393, 11491, 2, -1>>, <<11500, 11502, 2, -1>>,
     <<11507, 11507, 1, -1>>, <<11520, 11557, 1, -7264>>,
     <<11559, 11559, 1, -7264>>, <<11565, 11565, 1, -7264>>,
     <<42561, 42605, 2, -1>>, <<42625, 42651, 2, -1>>,
     <<42787, 42799, 2, -1>>, <<42803, 42863, 2, -1>>,
     <<42874, 42876, 2, -1>>, <<42879, 42887, 2, -1>>,
     <<42892, 42892, 1, -1>>, <<42897, 42899, 2, -1>>,
     <<42900, 42900, 1, 48>>, <<42903, 42921, 2, -1>>,
     <<42933, 42947, 2, -1>>, <<42952, 42954, 2, -1>>,
     <<42961, 42961, 1, -1>>, <<42967, 42969, 2, -1>>,
     <<42998, 42998, 1, -1>>, <<43859, 43859, 1, -928>>,
     <<43888, 43967, 1, -38864>>, <<65345, 65370, 1, -32>>,
     <<66600, 66639, 1, -40>>, <<66776, 66811, 1, -40>>,
     <<66967, 67003, 2, -39>>, <<66968, 66976, 2, -39>>,
     <<66980, 66992, 2, -39>>, <<66996, 67000, 2, -39>>,
     <<67004, 67004, 1, -39>>, <<68800, 68850, 1, -64>>,
     <<71872, 71903, 1, -32>>, <<93792, 93823, 1, -32>>,
     <<125218, 125251, 1, -34>>}
upper_special ==
    {<<223, <<83, 83>>>>, <<329, <<700, 78>>>>, <<496, <<74, 780>>>>,
     <<912, <<921, 776, 769>>>>, <<944, <<933, 776, 769>>>>,
     <<1415, <<1333, 1362>>>>, <<7830, <<72, 817>>>>, <<7831, <<84, 776>>>>,
     <<7832, <<87, 778>>>>, <<7833, <<89, 778>>>>, <<7834, <<65, 702>>>>,
     <<8016, <<933, 787>>>>, <<8018, <<933, 787, 768>>>>,
     <<8020, <<933, 787, 769>>>>, <<8022, <<933, 787, 834>>>>,
     <<8064, <<7944, 921>>>>, <<8065, <<7945, 921>>>>,
     <<8066, <<7946, 921>>>>, <<8067, <<7947, 921>>>>,
     <<8068, <<7948, 921>>>>, <<8069, <<7949, 921>>>>,
     <<8070, <<7950, 921>>>>, <<8071, <<7951, 921>>>>,
     <<8072, <<7944, 921>>>>, <<8073, <<7945, 921>>>>,
     <<8074, <<7946, 921>>>>, <<8075, <<7947, 921>>>>,
     <<8076, <<7948, 921>>>>, <<8077, <<7949, 921>>>>,
     <<8078, <<7950, 921>>>>, <<8079, <<7951, 921>>>>,
     <<8080, <<7976, 921>>>>, <<8081, <<7977, 921>>>>,
     <<8082, <<7978, 921>>>>, <<8083, <<7979, 921>>>>,
     <<8084, <<7980, 921>>>>, <<8085, <<7981, 921>>>>,
     <<8086, <<7982, 921>>>>, <<8087, <<7983, 921>>>>,
     <<8088, <<7976, 921>>>>, <<8089, <<7977, 921>>>>,
     <<8090, <<7978, 921>>>>, <<8091, <<7979, 921>>>>,
     <<8092, <<7980, 921>>>>, <<8093, <<7981, 921>>>>,
     <<8094, <<7982, 921>>>>, <<8095, <<7983, 921>>>>,
     <<8096, <<8040, 921>>>>, <<8097, <<8041, 921>>>>,
     <<8098, <<8042, 921>>>>, <<8099, <<8043, 921>>>>,
     <<8100, <<8044, 921>>>>, <<8101, <<8045, 921>>>>,
     <<8102, <<8046, 921>>>>, <<8103, <<8047, 921>>>>,
     <<8104, <<8040, 921>>>>, <<8105, <<8041, 921>>>>,
     <<8106, <<8042, 921>>>>, <<8107, <<8043, 921>>>>,
     <<8108, <<8044, 921>>>>, <<8109, <<8045, 921>>>>,
     <<8110, <<8046, 921>>>>, <<8111, <<8047, 921>>>>,
     <<8114, <<8122, 921>>>>, <<8115, <<913, 921>>>>, <<8116, <<902, 921>>>>,
     <<8118, <<913, 834>>>>, <<8119, <<913, 834, 921>>>>,
     <<8124, <<913, 921>>>>, <<8130, <<8138, 921>>>>, <<8131, <<919, 921>>>>,
     <<8132, <<905, 921>>>>, <<8134, <<919, 834>>>>,
     <<8135, <<919, 834, 921>>>>, <<8140, <<919, 921>>>>,
     <<8146, <<921, 776, 768>>>>, <<8147, <<921, 776, 769>>>>,
     <<8150, <<921, 834>>>>, <<8151, <<921, 776, 834>>>>,
     <<8162, <<933, 776, 768>>>>, <<8163, <<933, 776, 769>>>>,
     <<8164, <<929, 787>>>>, <<8166, <<933, 834>>>>,
     <<8167, <<933, 776, 834>>>>, <<8178, <<8186, 921>>>>,
     <<8179, <<937, 921>>>>, <<8180, <<911, 921>>>>, <<8182, <<937, 834>>>>,
     <<8183, <<937, 834, 921>>>>, <<8188, <<937, 921>>>>,
     <<64256, <<70, 70>>>>, <<64257, <<70, 73>>>>, <<64258, <<70, 76>>>>,
     <<64259, <<70, 70, 73>>>>, <<64260, <<70, 70, 76>>>>,
     <<64261, <<83, 84>>>>, <<64262, <<83, 84>>>>, <<64275, <<1348, 1350>>>>,
     <<64276, <<1348, 1333>>>>, <<64277, <<1348, 1339>>>>,
     <<64278, <<1358, 1350>>>>, <<64279, <<1348, 1341>>>>}

\* The code points str.upper() changes, each with its upper case.
upper_map ==
    [c \in {s[1] : s \in upper_special}
            \cup UNION {{r[1] + r[3] * k : k \in 0..((r[2] - r[1]) \div r[3])} :
                           r \in upper_runs} |->
        IF \E s \in upper_special : s[1] = c
        THEN (CHOOSE s \in upper_special : s[1] = c)[2]
        ELSE <<c + (CHOOSE r \in upper_runs :
                       /\ c \in r[1]..r[2]
                       /\ (c - r[1]) % r[3] = 0)[4]>>]

\* str.upper().
RECURSIVE upper(_)
upper(str) ==
    IF str = <<>> THEN <<>>
    ELSE (IF Head(str) \in DOMAIN upper_map THEN upper_map[Head(str)]
          ELSE <<Head(str)>>) \o upper(Tail(str))

\* The names of the members of ProductType: "EGG", "CHICKEN".
ProductTypes == {<<69, 71, 71>>, <<67, 72, 73, 67, 75, 69, 78>>}

\* BatchIn payloads of create_batch: product type (any str: "EGG", "egg",
\* "Ch\u0131cken" with a dotless i, "DUCK"), unit price (any float),
\* multiplier.
BatchPayloads ==
    {[product_type |-> <<69, 71, 71>>, unit_price |-> 2,
      expected_roi |-> DefaultRoi],
     [product_type |-> <<101, 103, 103>>, unit_price |-> 2,
      expected_roi |-> DefaultRoi],
     [product_type |-> <<67, 104, 305, 99, 107, 101, 110>>,
      unit_price |-> -3, expected_roi |-> 12],
     [product_type |-> <<68, 85, 67, 75>>, unit_price |-> 2,
      expected_roi |-> DefaultRoi]}

PAYOUT_KIND_RETURN == "RETURN"

\* Principal amounts of the investment rows a batch may hold when a payout
\* is requested: the column is nullable; create_investment stores
\* unit_price * units for any integer units, zero and negative included.
Principals == {NULL, Some(-3), Some(0), Some(6)}

VARIABLES
    wallet,        \* the first user's Wallet row: NULL (no row) or Some(balance)
    batches,       \* the batches table, in primary-key order: status,
                   \* unit_price, units_placed, expected_roi
    investments,   \* the investments table, in primary-key order
    payouts,       \* the payouts table, in primary-key order
    pc,            \* per request: where its handler stands
    ses,           \* per request: its session (rows read, pending changes)
    resp,          \* the response most recently sent, and to which request
    opening,       \* history: the balance the wallet row was created with
    deposited,     \* history: sum of the committed deposits
    raced,         \* history: some commit wrote a balance computed from a
                   \*          wallet row another request had since rewritten
    calls          \* history: per invocation of execute_payout_for_batch

vars == <<wallet, batches, investments, payouts, pc, ses, resp,
          opening, deposited, raced, calls>>

persisted == <<wallet, batches, investments, payouts>>

\* ---------------------------------------------------------------- arithmetic
\* round(x, 2) of payouts.py: x in ten-thousandths, the results in cents.
\* Off a tie the nearest cent; on a tie either neighbour (the binary value
\* of the product decides, and it is no function of x).
Round2(x) ==
    LET q == x \div 100
        r == x % 100
    IN  IF r < 50 THEN {q}
        ELSE IF r > 50 THEN {q + 1}
        ELSE {q, q + 1}

\* float(inv.amount or 0.0): a NULL (or zero) principal counts as zero.
AmountOrZero(inv) == IF inv.amount = NULL THEN 0 ELSE Val(inv.amount)

\* The loop of simulate_payout_for_batch: total += amt * roi per investment.
RECURSIVE accumulate(_, _, _)
accumulate(invs, roi, total) ==
    IF invs = <<>> THEN total
    ELSE accumulate(Tail(invs), roi, total + AmountOrZero(Head(invs)) * roi)

\* Variant: every contribution rounded to the cent before it is added.
RECURSIVE accumulate_rounded(_, _, _)
accumulate_rounded(invs, roi, total) ==
    IF invs = <<>> THEN {total}
    ELSE UNION {accumulate_rounded(Tail(invs), roi, total + c) :
                   c \in Round2(AmountOrZero(Head(invs)) * roi)}

simulate_rounds_each(invs, roi) == accumulate_rounded(invs, roi, 0)

\* The totals simulate_payout_for_batch may return: round(total, 2).
simulate_payout_for_batch(invs, roi) == Round2(accumulate(invs, roi, 0))

\* Variant: only a negative principal is skipped (amt < 0).
skipped_only_negative(inv) == AmountOrZero(inv) < 0

\* The guard of the loop of execute_payout_for_batch: amt <= 0 is skipped.
skipped(inv) == AmountOrZero(inv) <= 0

\* Variant: the payout returns the principal together with its return.
new_payout_with_principal(inv, roi) ==
    {[investment_id |-> inv.id,
      amount |-> 100 * AmountOrZero(inv) + c,
      kind |-> PAYOUT_KIND_RETURN] : c \in Round2(AmountOrZero(inv) * roi)}

\* Payout(investment_id=inv.id, amount=round(amt * roi, 2), kind=RETURN):
\* the records the constructor may be given.
new_payout(inv, roi) ==
    {[investment_id |-> inv.id,
      amount |-> c,
      kind |-> PAYOUT_KIND_RETURN] : c \in Round2(AmountOrZero(inv) * roi)}

\* The loop of execute_payout_for_batch over the investments invs: the
\* lists `created` it may end with, the payouts staged (db.add) in
\* iteration order.
RECURSIVE stage(_, _, _)
stage(invs, roi, created) ==
    IF invs = <<>> THEN {created}
    ELSE IF skipped(Head(invs)) THEN stage(Tail(invs), roi, created)
    ELSE UNION {stage(Tail(invs), roi, Append(created, np)) :
                   np \in new_payout(Head(invs), roi)}

\* Variant: a missing multiplier falls back to a default.
resolve_roi_default(roi_override, expected_roi) ==
    IF roi_override # NULL THEN roi_override
    ELSE IF expected_roi # NULL THEN expected_roi ELSE Some(12)

\* The multiplier execute_payout_for_batch works with, NULL when it raises
\* ValueError: the override if one is given, else the batch's expected_roi.
resolve_roi(roi_override, expected_roi) ==
    IF roi_override # NULL THEN roi_override ELSE expected_roi

\* The multiplier simulate_payout_for_batch works with, NULL when it raises.
simulate_roi(expected_roi) == expected_roi

\* Variant: an investment that already has a payout row gets no second one.
commit_payouts_dedup(table, created, call) ==
    LET fresh == SelectSeq(created, LAMBDA c :
                     \A i \in 1..Len(table) :
                         table[i].investment_id # c.investment_id)
    IN  table \o [i \in 1..Len(fresh) |->
                    [id |-> Len(table) + i,
                     investment_id |-> fresh[i].investment_id,
                     amount |-> fresh[i].amount,
                     kind |-> fresh[i].kind,
                     call |-> call]]

\* The rows db.commit() inserts for the staged payouts: primary keys follow
\* the table; `call` records the invocation that staged the row.
commit_payouts(table, created, call) ==
    table \o [i \in 1..Len(created) |->
                [id |-> Len(table) + i,
                 investment_id |-> created[i].investment_id,
                 amount |-> created[i].amount,
                 kind |-> created[i].kind,
                 call |-> call]]

\* ---------------------------------------------------------------- sessions
Blank ==
    [op |-> "none", batch_id |-> 0, units |-> 0, amount |-> 0,
     rbal |-> 0, balance |-> 0, rplaced |-> 0,
     override |-> NULL, nread |-> 0, created |-> <<>>, ops |-> <<>>,
     call |-> 0]

NoResp ==
    [p |-> "", op |-> "none", status |-> 0, detail |-> "", cause |-> "",
     at |-> "", batch_id |-> 0, override |-> NULL, nread |-> 0,
     created |-> <<>>, ops |-> <<>>, call |-> 0, total |-> 0]

\* The Batch row create_batch builds from its payload: status PLANNED,
\* units_placed at the column default 0.
new_batch(payload) ==
    [status |-> "PLANNED", unit_price |-> payload.unit_price,
     units_placed |-> 0, expected_roi |-> Some(payload.expected_roi)]

\* The store of the ledger: a first user as register (wallet 0.0) or login
\* (wallet 1000.0) creates it, or a user row without wallet row, which the
\* handlers guard against; one batch as create_batch leaves it.
InitLedger ==
    /\ wallet \in {NULL, Some(0), Some(DemoBalance)}
    /\ opening = (IF wallet = NULL THEN 0 ELSE Val(wallet))
    /\ batches = <<new_batch([product_type |-> <<69, 71, 71>>,
                              unit_price |-> UnitPrice,
                              expected_roi |-> DefaultRoi])>>
    /\ investments = <<>>
    /\ payouts = <<>>
    /\ pc = [p \in Procs |-> "idle"]
    /\ ses = [p \in Procs |-> Blank]
    /\ resp = NoResp
    /\ deposited = 0
    /\ raced = FALSE
    /\ calls = <<>>

\* The investment rows of the first batch with the principals ps, in key
\* order.
Rows(ps) ==
    [i \in 1..Len(ps) |->
        [id |-> i, batch_id |-> BatchId,
         units |-> IF ps[i] = NULL THEN 1 ELSE Val(ps[i]) \div UnitPrice,
         amount |-> ps[i], status |-> "ACTIVE"]]

RECURSIVE SumUnits(_)
SumUnits(invs) ==
    IF invs = <<>> THEN 0 ELSE Head(invs).units + SumUnits(Tail(invs))

\* The store when a payout is requested: a batch with up to MaxBatchSize
\* investments and no payout yet.
Init ==
    /\ wallet = Some(0)
    /\ opening = 0
    /\ \E n \in 0..MaxBatchSize : \E ps \in [1..n -> Principals] :
          investments = Rows(ps)
    /\ \E r \in BatchRois :
          batches = <<[status |-> "PLANNED", unit_price |-> UnitPrice,
                       units_placed |-> SumUnits(investments),
                       expected_roi |-> r]>>
    /\ payouts = <<>>
    /\ pc = [p \in Procs |-> "idle"]
    /\ ses = [p \in Procs |-> Blank]
    /\ resp = NoResp
    /\ deposited = 0
    /\ raced = FALSE
    /\ calls = <<>>

\* The handler of request p ends with response r.
Reply(p, r) ==
    /\ pc' = [pc EXCEPT ![p] = "idle"]
    /\ ses' = [ses EXCEPT ![p] = Blank]
    /\ resp' = [r EXCEPT !.p = p]

\* The handler of request p goes on at `at` with session s.
Goto(p, at, s) ==
    /\ pc' = [pc EXCEPT ![p] = at]
    /\ ses' = [ses EXCEPT ![p] = s]
    /\ UNCHANGED resp

\* db.get(Batch, batch_id) finds a row.
has_batch(batch_id) == batch_id \in 1..Len(batches)

\* Batch.investments: the investments of the batch, in key order.
batch_investments(batch_id) ==
    SelectSeq(investments, LAMBDA i : i.batch_id = batch_id)

\* The model explores balances up to MaxBalance above the opening one, and
\* the two that are not finite.
within(balance) ==
    finite(balance) => balance <= opening + MaxBalance

\* Variant: the in-memory balance reaches the row although the commit fails.
wallet_written_anyway(w, rbal, balance, committed) == Some(balance)

\* Variant: the commit leaves the wallet row as it was.
wallet_never_written(w, rbal, balance, committed) == w

\* The wallet row after db.commit() of a session that loaded the balance
\* rbal and set it to `balance`: when the transaction commits and the value
\* changed, the UPDATE writes `balance`; a commit without net change writes
\* no UPDATE, a failing commit writes nothing: the row stays as it is.
wallet_after_commit(w, rbal, balance, committed) ==
    IF committed /\ \lnot float_eq(rbal, balance) THEN Some(balance) ELSE w

\* ---------------------------------------------------------------- deposit
\* deposit up to the in-memory w.balance += amount.
DepositBegin(p, amount) ==
    /\ pc[p] = "idle"
    /\ UNCHANGED <<persisted, opening, deposited, raced, calls>>
    /\ IF float_le(amount, 0)
       THEN Reply(p, [NoResp EXCEPT !.op = "deposit", !.status = 400,
                        !.detail = "Amount must be positive"])
       ELSE IF wallet = NULL
       THEN Reply(p, [NoResp EXCEPT !.op = "deposit", !.status = 400,
                        !.detail = "Wallet missing"])
       ELSE /\ within(float_add(Val(wallet), amount))
            /\ Goto(p, "deposit_commit",
                    [Blank EXCEPT !.op = "deposit", !.amount = amount,
                                  !.rbal = Val(wallet),
                                  !.balance = float_add(Val(wallet), amount)])

\* db.commit() of deposit: writes the balance computed in memory; a failing
\* commit writes nothing and its exception leaves the handler.
DepositCommit(p, ok) ==
    /\ pc[p] = "deposit_commit"
    /\ UNCHANGED <<batches, investments, payouts, opening, calls>>
    /\ LET s == ses[p]
       IN  IF ok
           THEN /\ wallet' = wallet_after_commit(wallet, s.rbal, s.balance, TRUE)
                /\ deposited' = float_add(deposited, s.amount)
                /\ raced' = (raced \/ (\lnot float_eq(s.rbal, s.balance)
                                         /\ s.rbal # Val(wallet)))
                /\ Goto(p, "deposit_return", s)
           ELSE /\ UNCHANGED <<wallet, deposited, raced>>
                /\ Reply(p, [NoResp EXCEPT !.op = "deposit", !.status = 500,
                               !.detail = "Internal Server Error",
                               !.cause = "commit"])

\* The return of deposit: w.balance, expired by the commit, is loaded again
\* from the row as it is now.  A balance that is not finite cannot be
\* rendered as JSON: the response is the server's 500.
DepositReturn(p) ==
    /\ pc[p] = "deposit_return"
    /\ UNCHANGED <<persisted, opening, deposited, raced, calls>>
    /\ IF finite(Val(wallet))
       THEN Reply(p, [NoResp EXCEPT !.op = "deposit", !.status = 200,
                        !.total = Val(wallet)])
       ELSE Reply(p, [NoResp EXCEPT !.op = "deposit", !.status = 500,
                        !.detail = "Internal Server Error",
                        !.cause = "ValueError"])

\* ---------------------------------------------------------------- purchase
\* Purchases under way (they bound the investments table).
PurchasesInFlight ==
    Cardinality({q \in Procs : pc[q] \in {"create_wallet", "create_commit"}})

Failed(cause, batch_id) ==
    [NoResp EXCEPT !.op = "create", !.status = 500,
                   !.detail = "Failed to create investment",
                   !.cause = cause, !.batch_id = batch_id]

\* The response to a handler that returned a dict which is no InvestmentOut
\* (or no BatchOut): the response model rejects it after the handler.
Invalid(op, batch_id) ==
    [NoResp EXCEPT !.op = op, !.status = 500,
                   !.detail = "Internal Server Error",
                   !.cause = "ResponseValidationError",
                   !.batch_id = batch_id]

\* The balance check of create_investment: the purchase is refused.
insufficient(w, amount) == w = NULL \/ float_lt(Val(w), amount)

\* Variant: the unit price is charged whatever the number of units.
purchase_amount_one_unit(b, units) == b.unit_price

\* The amount create_investment charges for `units` units of batch b.
purchase_amount(b, units) == float_mul(b.unit_price, units)

\* create_investment up to the amount: db.get(Batch) and the availability
\* check.  An HTTPException(400) raised inside the try block is caught by
\* the handler's own `except Exception` and replaced by the 500 response.
CreateBegin(p, batch_id, units) ==
    /\ pc[p] = "idle"
    /\ UNCHANGED <<persisted, opening, deposited, raced, calls>>
    /\ IF \lnot has_batch(batch_id)
       THEN Reply(p, Failed("Batch not available", batch_id))
       ELSE IF batches[batch_id].status \notin {"PLANNED", "ACTIVE"}
       THEN Reply(p, Failed("Batch not available", batch_id))
       ELSE /\ Len(investments) + PurchasesInFlight < MaxInvestments
            /\ Goto(p, "create_wallet",
                    [Blank EXCEPT !.op = "create", !.batch_id = batch_id,
                         !.units = units,
                         !.amount = purchase_amount(batches[batch_id], units),
                         !.rplaced = batches[batch_id].units_placed])

\* create_investment from the wallet query to db.add(inv): the balance
\* check, then the in-memory changes (w.balance -= amount, the new
\* Investment, batch.units_placed += units on the batch row as loaded).
CreateCharge(p) ==
    /\ pc[p] = "create_wallet"
    /\ UNCHANGED <<persisted, opening, deposited, raced, calls>>
    /\ LET s == ses[p]
       IN  IF insufficient(wallet, s.amount)
           THEN Reply(p, Failed("Insufficient wallet balance",
                                s.batch_id))
           ELSE /\ within(float_sub(Val(wallet), s.amount))
                /\ Goto(p, "create_commit",
                        [s EXCEPT !.rbal = Val(wallet),
                                  !.balance = float_sub(Val(wallet), s.amount)])

\* db.commit(), db.refresh(inv) and the return of create_investment.  One
\* transaction writes the wallet balance and the batch's units_placed
\* computed in memory, where they changed, and inserts the investment; a
\* failing commit writes nothing.  A failing refresh comes after the commit.
\* Either exception becomes the handler's 500 response; the dict the
\* handler returns is rejected by its response model.
CreateCommit(p, outcome) ==
    /\ pc[p] = "create_commit"
    /\ UNCHANGED <<payouts, opening, deposited, calls>>
    /\ LET s == ses[p]
       IN  IF outcome = "commit fails"
           THEN /\ wallet' = wallet_after_commit(wallet, s.rbal, s.balance, FALSE)
                /\ UNCHANGED <<batches, investments, raced>>
                /\ Reply(p, Failed("commit", s.batch_id))
           ELSE /\ wallet' = wallet_after_commit(wallet, s.rbal, s.balance, TRUE)
                /\ batches' = IF s.units = 0 THEN batches
                              ELSE [batches EXCEPT ![s.batch_id].units_placed =
                                                       s.rplaced + s.units]
                /\ investments' = Append(investments,
                                     [id |-> Len(investments) + 1,
                                      batch_id |-> s.batch_id,
                                      units |-> s.units,
                                      amount |-> Some(s.amount),
                                      status |-> "ACTIVE"])
                /\ raced' = (raced \/ (\lnot float_eq(s.rbal, s.balance)
                                         /\ s.rbal # Val(wallet)))
                /\ IF outcome = "refresh fails"
                   THEN Reply(p, Failed("refresh", s.batch_id))
                   ELSE Reply(p, Invalid("create", s.batch_id))

Outcomes == {"ok", "commit fails", "refresh fails"}

\* ---------------------------------------------------------------- batches
\* create_batch: the product type is looked up by its name in upper case
\* (KeyError: 400), the row is
\* added, committed and refreshed; an exception becomes the handler's 500,
\* and the dict the handler returns is rejected by its response model.
create_batch(p, payload, outcome) ==
    /\ pc[p] = "idle"
    /\ UNCHANGED <<wallet, investments, payouts, opening, deposited, raced,
                   calls>>
    /\ IF upper(payload.product_type) \notin ProductTypes
       THEN /\ outcome = "ok"
            /\ UNCHANGED batches
            /\ Reply(p, [NoResp EXCEPT !.op = "create_batch", !.status = 400,
                           !.detail = "Invalid product type",
                           !.cause = "KeyError"])
       ELSE /\ Len(batches) < MaxBatches
            /\ IF outcome = "commit fails"
               THEN /\ UNCHANGED batches
                    /\ Reply(p, [NoResp EXCEPT !.op = "create_batch",
                                   !.status = 500,
                                   !.detail = "Failed to create batch",
                                   !.cause = "commit"])
               ELSE /\ batches' = Append(batches, new_batch(payload))
                    /\ IF outcome = "refresh fails"
                       THEN Reply(p, [NoResp EXCEPT !.op = "create_batch",
                                        !.status = 500,
                                        !.detail = "Failed to create batch",
                                        !.cause = "refresh",
                                        !.batch_id = Len(batches) + 1])
                       ELSE Reply(p, Invalid("create_batch", Len(batches) + 1))

\* activate_batch / harvest_batch: db.get, b.status = ..., db.commit().
\* A failing commit writes nothing; its exception leaves the handler, which
\* has no try block.
SetStatus(p, batch_id, status, ok) ==
    /\ pc[p] = "idle"
    /\ UNCHANGED <<wallet, investments, payouts, opening, deposited, raced,
                   calls>>
    /\ IF \lnot has_batch(batch_id)
       THEN /\ ok
            /\ UNCHANGED batches
            /\ Reply(p, [NoResp EXCEPT !.op = "status", !.status = 404,
                           !.detail = "Batch not found", !.batch_id = batch_id])
       ELSE IF ok
       THEN /\ batches' = [batches EXCEPT ![batch_id].status = status]
            /\ Reply(p, [NoResp EXCEPT !.op = "status", !.status = 200,
                           !.batch_id = batch_id])
       ELSE /\ UNCHANGED batches
            /\ Reply(p, [NoResp EXCEPT !.op = "status", !.status = 500,
                           !.detail = "Internal Server Error",
                           !.cause = "commit", !.batch_id = batch_id])

activate_batch(p, batch_id, ok) == SetStatus(p, batch_id, "ACTIVE", ok)
harvest_batch(p, batch_id, ok) == SetStatus(p, batch_id, "HARVESTED", ok)

\* ---------------------------------------------------------------- payouts
\* Variant: the simulation stages and commits the payouts it computes from
\* the batch's own multiplier, as the executing path does.
SimulatePersisting(p, batch_id) ==
    /\ pc[p] = "idle"
    /\ UNCHANGED <<wallet, batches, investments, opening, deposited, raced,
                   calls>>
    /\ IF \lnot has_batch(batch_id)
       THEN /\ UNCHANGED payouts
            /\ Reply(p, [NoResp EXCEPT !.op = "simulate", !.status = 404,
                           !.detail = "Batch not found", !.batch_id = batch_id])
       ELSE IF batches[batch_id].expected_roi = NULL
       THEN /\ UNCHANGED payouts
            /\ Reply(p, [NoResp EXCEPT !.op = "simulate", !.status = 500,
                           !.detail = "Batch.expected_roi must be set",
                           !.cause = "ValueError", !.batch_id = batch_id])
       ELSE LET roi == Val(batches[batch_id].expected_roi)
                invs == batch_investments(batch_id)
            IN  \E created \in stage(invs, roi, <<>>),
                   total \in simulate_payout_for_batch(invs, roi) :
                    /\ payouts' = payouts \o
                           [i \in 1..Len(created) |->
                               [id |-> Len(payouts) + i,
                                investment_id |-> created[i].investment_id,
                                amount |-> created[i].amount,
                                kind |-> created[i].kind,
                                call |-> 0]]
                    /\ Reply(p, [NoResp EXCEPT !.op = "simulate",
                                   !.status = 200, !.batch_id = batch_id,
                                   !.nread = Len(invs),
                                   !.ops = <<"add", "commit">>,
                                   !.total = total])

\* simulate (admin.py) with simulate_payout_for_batch: no session operation
\* after db.get(Batch) and the load of batch.investments.
Simulate(p, batch_id) ==
    /\ pc[p] = "idle"
    /\ UNCHANGED <<persisted, opening, deposited, raced, calls>>
    /\ IF \lnot has_batch(batch_id)
       THEN Reply(p, [NoResp EXCEPT !.op = "simulate", !.status = 404,
                        !.detail = "Batch not found", !.batch_id = batch_id])
       ELSE IF simulate_roi(batches[batch_id].expected_roi) = NULL
       THEN Reply(p, [NoResp EXCEPT !.op = "simulate", !.status = 500,
                        !.detail = "Batch.expected_roi must be set",
                        !.cause = "ValueError", !.batch_id = batch_id])
       ELSE LET roi == Val(simulate_roi(batches[batch_id].expected_roi))
                invs == batch_investments(batch_id)
            IN  \E total \in simulate_payout_for_batch(invs, roi) :
                    Reply(p, [NoResp EXCEPT !.op = "simulate", !.status = 200,
                                !.batch_id = batch_id, !.nread = Len(invs),
                                !.total = total])

\* The response of execute when execute_payout_for_batch raises the
\* SQLAlchemyError again after db.rollback().
ExecError(s, at, ops) ==
    [NoResp EXCEPT !.op = "execute", !.status = 500,
                   !.detail = "Internal Server Error",
                   !.cause = "SQLAlchemyError", !.at = at,
                   !.batch_id = s.batch_id, !.override = s.override,
                   !.nread = s.nread, !.ops = ops, !.call = s.call]

Adds(n) == [i \in 1..n |-> "add"]
Refreshes(n) == [i \in 1..n |-> "refresh"]

\* execute_payout_for_batch up to db.commit(), called with the Batch row
\* batch_id, or with None when there is no such row: the validation, the
\* multiplier, the load of batch.investments and the loop that stages one
\* payout per investment it does not skip.  load_ok = FALSE: the load of
\* batch.investments raises; fail_at = k > 0: the k-th db.add raises; the
\* error is caught, rolled back, raised again.
ExecuteBegin(p, batch_id, roi_override, load_ok, fail_at) ==
    /\ pc[p] = "idle"
    /\ UNCHANGED <<persisted, opening, deposited, raced>>
    /\ IF \lnot has_batch(batch_id)
       THEN /\ load_ok /\ fail_at = 0
            /\ UNCHANGED calls
            /\ Reply(p, [NoResp EXCEPT !.op = "execute", !.status = 500,
                           !.detail = "Batch cannot be None",
                           !.cause = "ValueError", !.batch_id = batch_id,
                           !.override = roi_override])
       ELSE IF resolve_roi(roi_override, batches[batch_id].expected_roi) = NULL
       THEN /\ load_ok /\ fail_at = 0
            /\ UNCHANGED calls
            /\ Reply(p, [NoResp EXCEPT !.op = "execute", !.status = 500,
                           !.detail = "ROI not specified on batch and no override given",
                           !.cause = "ValueError", !.batch_id = batch_id,
                           !.override = roi_override])
       ELSE IF \lnot load_ok
       THEN /\ fail_at = 0
            /\ Len(calls) < MaxExecCalls
            /\ calls' = Append(calls,
                   [outcome |-> "error",
                    overlap |-> \E q \in Procs \ {p} : pc[q] = "exec_commit"])
            /\ Reply(p, ExecError([Blank EXCEPT !.op = "execute",
                                      !.batch_id = batch_id,
                                      !.override = roi_override,
                                      !.call = Len(calls) + 1],
                                  "load", <<"rollback">>))
       ELSE LET roi == Val(resolve_roi(roi_override,
                                       batches[batch_id].expected_roi))
                invs == batch_investments(batch_id)
                overlap == \E q \in Procs \ {p} : pc[q] = "exec_commit"
            IN  /\ Len(calls) < MaxExecCalls
                /\ \E created \in stage(invs, roi, <<>>) :
                  LET s == [Blank EXCEPT !.op = "execute",
                                !.batch_id = batch_id,
                                !.override = roi_override,
                                !.nread = Len(invs),
                                !.created = created,
                                !.ops = Adds(Len(created)),
                                !.call = Len(calls) + 1]
                  IN  /\ fail_at <= Len(created)
                      /\ IF fail_at = 0
                         THEN /\ calls' = Append(calls,
                                     [outcome |-> "running", overlap |-> overlap])
                              /\ Goto(p, "exec_commit", s)
                         ELSE /\ calls' = Append(calls,
                                     [outcome |-> "error", overlap |-> overlap])
                              /\ Reply(p, ExecError(s, "add",
                                         Adds(fail_at) \o <<"rollback">>))

\* execute (admin.py): db.get(Batch), then execute_payout_for_batch without
\* override, whatever the request carries.
execute(p, batch_id, load_ok, fail_at) ==
    IF \lnot has_batch(batch_id)
    THEN /\ pc[p] = "idle"
         /\ load_ok /\ fail_at = 0
         /\ UNCHANGED <<persisted, opening, deposited, raced, calls>>
         /\ Reply(p, [NoResp EXCEPT !.op = "execute", !.status = 404,
                        !.detail = "Batch not found", !.batch_id = batch_id])
    ELSE ExecuteBegin(p, batch_id, NULL, load_ok, fail_at)

\* The sum of the amounts of the payouts ps.
RECURSIVE SumAmounts(_)
SumAmounts(ps) ==
    IF ps = <<>> THEN 0 ELSE Head(ps).amount + SumAmounts(Tail(ps))

\* Variant: the commit also settles the payouts: it credits their sum to the
\* wallet and marks the investments paid PAID.
ExecuteCommitSettling(p, outcome, fail_at) ==
    /\ pc[p] = "exec_commit"
    /\ UNCHANGED <<batches, opening, deposited, raced>>
    /\ LET s == ses[p]
           table == commit_payouts(payouts, s.created, s.call)
           rows == SubSeq(table, Len(payouts) + 1, Len(table))
           paid == {rows[i].investment_id : i \in 1..Len(rows)}
       IN  IF outcome = "commit fails"
           THEN /\ fail_at = 0
                /\ UNCHANGED <<wallet, investments, payouts>>
                /\ calls' = [calls EXCEPT ![s.call].outcome = "error"]
                /\ Reply(p, ExecError(s, "commit",
                                      s.ops \o <<"commit", "rollback">>))
           ELSE /\ payouts' = table
                /\ wallet' = Some(Val(wallet) + SumAmounts(rows))
                /\ investments' =
                      [i \in 1..Len(investments) |->
                          IF investments[i].id \in paid
                          THEN [investments[i] EXCEPT !.status = "PAID"]
                          ELSE investments[i]]
                /\ IF outcome = "refresh fails"
                   THEN /\ fail_at \in 1..Len(s.created)
                        /\ calls' = [calls EXCEPT ![s.call].outcome = "error"]
                        /\ Reply(p, ExecError(s, "refresh",
                                   s.ops \o <<"commit">> \o Refreshes(fail_at)
                                         \o <<"rollback">>))
                   ELSE /\ fail_at = 0
                        /\ calls' = [calls EXCEPT ![s.call].outcome = "ok"]
                        /\ Reply(p, [NoResp EXCEPT !.op = "execute",
                                       !.status = 200, !.batch_id = s.batch_id,
                                       !.override = s.override,
                                       !.nread = s.nread, !.created = rows,
                                       !.call = s.call,
                                       !.ops = s.ops \o <<"commit">>
                                                 \o Refreshes(Len(rows))])

\* db.commit(), the db.refresh(p) of every created payout, and the return.
\* The commit inserts every staged payout or, failing, none.  fail_at = k > 0:
\* the k-th db.refresh raises.  A failing commit or refresh is caught,
\* db.rollback() is called and the error is raised again; after the commit
\* the rollback has nothing to undo.
ExecuteCommit(p, outcome, fail_at) ==
    /\ pc[p] = "exec_commit"
    /\ UNCHANGED <<wallet, batches, investments, opening, deposited, raced>>
    /\ LET s == ses[p]
           table == commit_payouts(payouts, s.created, s.call)
           rows == SubSeq(table, Len(payouts) + 1, Len(table))
       IN  IF outcome = "commit fails"
           THEN /\ fail_at = 0
                /\ UNCHANGED payouts
                /\ calls' = [calls EXCEPT ![s.call].outcome = "error"]
                /\ Reply(p, ExecError(s, "commit",
                                      s.ops \o <<"commit", "rollback">>))
           ELSE /\ payouts' = table
                /\ IF outcome = "refresh fails"
                   THEN /\ fail_at \in 1..Len(s.created)
                        /\ calls' = [calls EXCEPT ![s.call].outcome = "error"]
                        /\ Reply(p, ExecError(s, "refresh",
                                   s.ops \o <<"commit">> \o Refreshes(fail_at)
                                         \o <<"rollback">>))
                   ELSE /\ fail_at = 0
                        /\ calls' = [calls EXCEPT ![s.call].outcome = "ok"]
                        /\ Reply(p, [NoResp EXCEPT !.op = "execute",
                                       !.status = 200, !.batch_id = s.batch_id,
                                       !.override = s.override,
                                       !.nread = s.nread, !.created = rows,
                                       !.call = s.call,
                                       !.ops = s.ops \o <<"commit">>
                                                 \o Refreshes(Len(rows))])

\* ---------------------------------------------------------------- specifications
StepDeposit(p, amounts) ==
    \/ \E a \in amounts : DepositBegin(p, a)
    \/ \E ok \in BOOLEAN : DepositCommit(p, ok)
    \/ DepositReturn(p)

StepPurchase(p) ==
    \/ \E b \in BatchIds, u \in UnitChoices : CreateBegin(p, b, u)
    \/ CreateCharge(p)
    \/ \E o \in Outcomes : CreateCommit(p, o)

StepBatches(p) ==
    \/ \E b \in BatchPayloads, o \in Outcomes : create_batch(p, b, o)
    \/ \E b \in BatchIds, ok \in BOOLEAN : activate_batch(p, b, ok)
    \/ \E b \in BatchIds, ok \in BOOLEAN : harvest_batch(p, b, ok)

\* The payout routes: no request reaches execute_payout_for_batch with an
\* override.
StepPayout(p) ==
    \/ \E b \in BatchIds : Simulate(p, b)
    \/ \E b \in BatchIds, ok \in BOOLEAN, k \in 0..MaxBatchSize :
          execute(p, b, ok, k)
    \/ \E o \in Outcomes, k \in 0..MaxBatchSize : ExecuteCommit(p, o, k)

\* A caller of the service function itself, with or without override, with
\* a Batch row or with None.  (A call with a Batch row and without override
\* is the call the route makes.)
StepService(p) ==
    \E b \in BatchIds, o \in Overrides, ok \in BOOLEAN,
       k \in 0..MaxBatchSize :
        /\ \lnot (o = NULL /\ has_batch(b))
        /\ ExecuteBegin(p, b, o, ok, k)

\* The payout engine: simulations and executions of concurrent callers, by
\* the routes and of the service function.
Next == \E p \in Procs : StepPayout(p) \/ StepService(p)
Spec == Init /\ [][Next]_vars

\* The ledger under concurrency: deposits of finite amounts and purchases
\* of requests whose session operations interleave.
NextLedger == \E p \in Procs : StepDeposit(p, FiniteDeposits) \/ StepPurchase(p)
SpecLedger == InitLedger /\ [][NextLedger]_vars

\* The ledger with its requests served one after another: deposits of any
\* float and purchases.
NextSeq == StepDeposit("r1", DepositAmounts) \/ StepPurchase("r1")
SpecSeq == InitLedger /\ [][NextSeq]_vars

\* Purchases served one after another, and batches created, activated and
\* harvested in between.
NextBatches == StepPurchase("r1") \/ StepBatches("r1")
SpecBatches == InitLedger /\ [][NextBatches]_vars

\* ---------------------------------------------------------------- properties
\* The batch the payout requests name.
batch == batches[BatchId]

\* The investments a request read: the first n rows of the table (rows are
\* only ever appended and never changed).
Read(n) == SubSeq(investments, 1, n)

\* The investments with a strictly positive principal, in table order.
Eligible(invs) ==
    SelectSeq(invs, LAMBDA i : i.amount # NULL /\ Val(i.amount) > 0)

\* c cents is x ten-thousandths rounded to the nearest cent.
NearestCent(c, x) == 100 * c - x \in -50..50

\* The payout rows invocation c committed, in table order.
RowsOf(c) == SelectSeq(payouts, LAMBDA r : r.call = c)

RECURSIVE SumPrincipal(_)
SumPrincipal(invs) ==
    IF invs = <<>> THEN 0
    ELSE (IF Head(invs).amount = NULL THEN 0 ELSE Val(Head(invs).amount))
         + SumPrincipal(Tail(invs))

\* C1: a successful execute_payout_for_batch returns, and has persisted,
\* exactly one payout per investment with strictly positive principal, in
\* the order of the batch's investments, and none for the others; each is
\* of kind RETURN with amount round(principal * roi, 2), roi being the
\* override when one is supplied and the batch's expected_roi otherwise.
C1_ExecuteOnePayoutPerEligible ==
    (resp.op = "execute" /\ resp.status = 200) =>
        LET elig == Eligible(Read(resp.nread))
            roi == IF resp.override # NULL THEN Val(resp.override)
                   ELSE Val(batch.expected_roi)
        IN  /\ Len(resp.created) = Len(elig)
            /\ RowsOf(resp.call) = resp.created
            /\ \A i \in 1..Len(elig) :
                  /\ resp.created[i].investment_id = elig[i].id
                  /\ resp.created[i].kind = "RETURN"
                  /\ NearestCent(resp.created[i].amount,
                                 Val(elig[i].amount) * roi)
            /\ \A i, j \in 1..Len(resp.created) :
                  i < j => resp.created[i].id < resp.created[j].id

\* C1 witness: an execution with an override that differs from the batch's
\* own multiplier returned one payout and skipped the other investment.
C1_Witness ==
    /\ resp.op = "execute" /\ resp.status = 200
    /\ resp.override # NULL /\ batch.expected_roi # NULL
    /\ resp.override # batch.expected_roi
    /\ resp.nread = 2 /\ Len(resp.created) = 1
    /\ resp.created[1].amount > 0

\* C2: whenever execute_payout_for_batch ends by raising a persistence
\* error (at staging, commit or refresh), the rollback was the last session
\* operation and no payout row staged by that call is committed.
C2_PersistenceErrorLeavesNothing ==
    (resp.op = "execute" /\ resp.cause = "SQLAlchemyError") =>
        /\ resp.ops # <<>>
        /\ resp.ops[Len(resp.ops)] = "rollback"
        /\ RowsOf(resp.call) = <<>>

\* C3: no deduplication, no mutual exclusion: once n invocations of execute
\* on the batch have all returned successfully, interleaved or not, n * m
\* payout rows are persisted, m rows of each invocation, m being the number
\* of eligible investments.
C3_EverySuccessfulExecuteCommitsFullSet ==
    (\A c \in 1..Len(calls) : calls[c].outcome = "ok") =>
        /\ Len(payouts) = Len(calls) * Len(Eligible(investments))
        /\ \A c \in 1..Len(calls) :
              Len(RowsOf(c)) = Len(Eligible(investments))

\* C3 witness: two invocations that overlapped in time both returned; the
\* batch has two eligible investments, each of which now has two payouts.
C3_Witness ==
    /\ Len(calls) = 2
    /\ \A c \in 1..2 : calls[c].outcome = "ok"
    /\ calls[2].overlap
    /\ Len(Eligible(investments)) = 2
    /\ Len(payouts) = 4

\* C4: with expected_roi set, simulate_payout_for_batch returns the sum of
\* principal * expected_roi over all investments, a NULL principal counted
\* as zero, rounded once after summation; 0.00 for an empty batch.
C4_SimulateRoundsTheSum ==
    (resp.op = "simulate" /\ resp.status = 200) =>
        /\ batch.expected_roi # NULL
        /\ NearestCent(resp.total,
                       Val(batch.expected_roi) * SumPrincipal(Read(resp.nread)))
        /\ resp.nread = 0 => resp.total = 0

\* C4 witness: a simulation over a NULL and a positive principal with a
\* positive total.
C4_Witness ==
    /\ resp.op = "simulate" /\ resp.status = 200
    /\ resp.nread = 2 /\ resp.total > 0
    /\ \E i \in 1..2 : investments[i].amount = NULL

\* C5: in simulate_payout_for_batch an investment with non-positive
\* principal (zero, negative, NULL) contributes nothing: the total is the
\* total of the batch without these investments.
C5_NonPositiveContributesNothing ==
    (resp.op = "simulate" /\ resp.status = 200) =>
        NearestCent(resp.total,
                    Val(batch.expected_roi)
                      * SumPrincipal(Eligible(Read(resp.nread))))

\* The sum of the principals of the investments purchased so far.
Invested == SumPrincipal(investments)

\* C6: with deposits and purchases run one after another, every wallet
\* balance is non-negative: a purchase is let through to its commit only
\* with an amount the balance covers, a deposit only with a strictly
\* positive amount.
C6_BalanceNeverNegative ==
    /\ wallet # NULL => float_le(0, Val(wallet))
    /\ \A p \in Procs :
          /\ pc[p] = "create_commit" =>
                /\ float_le(ses[p].amount, ses[p].rbal)
                /\ float_le(0, ses[p].balance)
          /\ pc[p] = "deposit_commit" => float_lt(0, ses[p].amount)

\* The request p ends, with this step, a purchase.
PurchaseEnds(p) ==
    /\ resp'.op = "create" /\ resp'.p = p /\ pc'[p] = "idle"
    /\ \/ pc[p] \in {"create_wallet", "create_commit"}
       \/ (pc[p] = "idle" /\ resp' # resp)

\* The transaction of the purchase that ends with this step has committed.
Committed == resp'.cause \in {"ResponseValidationError", "refresh"}

\* C7: a purchase of u units against a PLANNED or ACTIVE batch by a user
\* whose balance is at least u * unit_price is not refused, and when it
\* commits, the balance is lower by exactly u * unit_price, exactly one
\* investment with units u and amount u * unit_price is added for that
\* batch, and the batch's units_placed is higher by u.  (With the requests
\* served one after another the store is, when the purchase ends, as the
\* purchase found it.)
C7_PurchaseCommitsAtomically ==
    [][\A p \in Procs :
         PurchaseEnds(p) =>
           LET id == resp'.batch_id
               u == ses[p].units
           IN  /\ resp'.cause = "Batch not available" =>
                     \lnot (/\ has_batch(id)
                            /\ batches[id].status \in {"PLANNED", "ACTIVE"})
               /\ resp'.cause = "Insufficient wallet balance" =>
                     \/ wallet = NULL
                     \/ Val(wallet) < u * batches[id].unit_price
               /\ Committed =>
                     /\ batches[id].status \in {"PLANNED", "ACTIVE"}
                     /\ Val(wallet) >= u * batches[id].unit_price
                     /\ wallet' = Some(Val(wallet) - u * batches[id].unit_price)
                     /\ investments' =
                           Append(investments,
                                  [id |-> Len(investments) + 1,
                                   batch_id |-> id, units |-> u,
                                   amount |-> Some(u * batches[id].unit_price),
                                   status |-> "ACTIVE"])
                     /\ batches' = [batches EXCEPT ![id].units_placed = @ + u]
      ]_vars

\* C7 witness: two units of the second batch, at 2 each, bought from the
\* demo balance.
C7_Witness ==
    /\ resp.op = "create" /\ resp.cause = "ResponseValidationError"
    /\ resp.batch_id = 2
    /\ wallet = Some(DemoBalance - 4)
    /\ Len(batches) = 2 /\ batches[2].units_placed = 2
    /\ batches[1].units_placed = 0
    /\ investments = <<[id |-> 1, batch_id |-> 2, units |-> 2,
                         amount |-> Some(4), status |-> "ACTIVE"]>>

\* C8: a purchase attempt that fails because the batch is missing or not
\* PLANNED/ACTIVE, the wallet is missing, the balance is too small or the
\* commit fails leaves the wallet, the investments and the batches as they
\* were before the attempt: no step of the attempt changes them.
C8_FailedPurchaseChangesNothing ==
    [][\A p \in Procs :
         /\ pc'[p] \in {"create_wallet", "create_commit"} =>
               persisted' = persisted
         /\ (PurchaseEnds(p) /\ resp'.cause \in {"Batch not available",
                                "Insufficient wallet balance", "commit"}) =>
               persisted' = persisted
      ]_vars

\* C8 witness: the commit of a purchase failed and another purchase, of the
\* second batch, was refused for its amount; the store holds what the one
\* purchase that committed left.
C8_Witness ==
    /\ resp.op = "create" /\ resp.cause = "commit"
    /\ wallet = Some(DemoBalance - 3)
    /\ Len(investments) = 1 /\ batches[1].units_placed = 1
    /\ Len(batches) = 2 /\ batches[2].units_placed = 0

\* The balance the committed deposits and purchases add up to.
Ledger == float_sub(float_add(opening, deposited), Invested)

\* C9: wallet mutations are not serialized.  The balance differs from the
\* opening balance plus the committed deposits minus the committed
\* investments only after some request committed a balance computed from a
\* wallet row that another request had rewritten in between; and such a
\* state is reachable.
C9_BalanceOffOnlyAfterRace ==
    (wallet # NULL /\ Val(wallet) # Ledger) => raced

\* C9 witness: a lost update: every request has ended and the balance is
\* not what deposits and investments add up to.
C9_Witness ==
    /\ wallet # NULL
    /\ Val(wallet) # Ledger
    /\ deposited > 0 /\ investments # <<>>
    /\ \A p \in Procs : pc[p] = "idle"

\* C10: with the batch's expected_roi NULL and no override,
\* execute_payout_for_batch fails with a ValueError before any session
\* operation and persists nothing; simulate_payout_for_batch fails with a
\* ValueError when expected_roi is NULL.  Every ValueError (also the one for
\* a call without batch) comes before any session operation and leaves the
\* store as it is.
C10_MissingRoiFailsBeforeAnySessionOperation ==
    [][/\ batch.expected_roi = NULL =>
            /\ (resp' # resp /\ resp'.op = "execute"
                  /\ resp'.batch_id = BatchId /\ resp'.override = NULL) =>
                 /\ resp'.cause = "ValueError"
                 /\ resp'.ops = <<>>
                 /\ persisted' = persisted
                 /\ calls' = calls
            /\ (resp' # resp /\ resp'.op = "simulate"
                  /\ resp'.batch_id = BatchId) =>
                 /\ resp'.cause = "ValueError"
                 /\ persisted' = persisted
            /\ \A p \in Procs :
                 pc'[p] = "exec_commit" => ses'[p].override # NULL
       /\ (resp' # resp /\ resp'.cause = "ValueError") =>
            /\ resp'.ops = <<>>
            /\ persisted' = persisted
            /\ calls' = calls
      ]_vars

\* C10 witness: an execution without override failed validation on a batch
\* that has an eligible investment.
C10_Witness ==
    /\ resp.op = "execute" /\ resp.cause = "ValueError"
    /\ resp.batch_id = BatchId
    /\ resp.detail = "ROI not specified on batch and no override given"
    /\ resp.override = NULL /\ batch.expected_roi = NULL
    /\ Eligible(investments) # <<>>
    /\ payouts = <<>>

\* C11: simulate_payout_for_batch is read-only: whether it returns a total
\* or fails, it performs no session operation (no add, commit, rollback,
\* refresh) and wallet, batches, investments and payouts are the same after
\* the call as before it.
C11_SimulateIsReadOnly ==
    [][(resp' # resp /\ resp'.op = "simulate") =>
          /\ resp'.ops = <<>>
          /\ persisted' = persisted
          /\ calls' = calls
      ]_vars

\* C11 witness: a simulation returned a positive total for a batch whose
\* payouts table already holds rows, and the table holds no more than the
\* executions committed.
C11_Witness ==
    /\ resp.op = "simulate" /\ resp.status = 200 /\ resp.total > 0
    /\ payouts # <<>>
    /\ \A i \in 1..Len(payouts) : payouts[i].call \in 1..Len(calls)

\* The request p takes, with this step, a step of execute.
ExecuteStep(p) ==
    \/ pc[p] = "exec_commit"
    \/ pc'[p] = "exec_commit"
    \/ (pc[p] = "idle" /\ resp' # resp /\ resp'.op = "execute" /\ resp'.p = p)

\* C12: execute_payout_for_batch changes nothing but the payouts table, and
\* only by adding rows: the wallet balance, every investment (amount, units,
\* status), the batch (status, units_placed) and every payout row committed
\* before are the same after each of its steps; no wallet is credited and no
\* investment is marked PAID.
C12_ExecuteOnlyAddsPayouts ==
    [][\A p \in Procs :
         ExecuteStep(p) =>
            /\ wallet' = wallet
            /\ investments' = investments
            /\ batches' = batches
            /\ Len(payouts') >= Len(payouts)
            /\ SubSeq(payouts', 1, Len(payouts)) = payouts
      ]_vars

\* C12 witness: a second execution returned; the row of the first is still
\* in place, the balance is still 0 and the investment paid twice is ACTIVE.
C12_Witness ==
    /\ resp.op = "execute" /\ resp.status = 200 /\ resp.call = 2
    /\ Len(payouts) = 2
    /\ payouts[1].call = 1 /\ payouts[2].call = 2
    /\ payouts[1].amount > 0
    /\ wallet = Some(0)
    /\ \A i \in 1..Len(investments) : investments[i].status = "ACTIVE"

\* C13: a purchase create_investment rejects because the batch is missing or
\* not PLANNED/ACTIVE, or because the wallet is missing or its balance too
\* small, is answered with status 400 and the specific reason, not with 500
\* "Failed to create investment".
C13_RejectionReportedAs400 ==
    (resp.op = "create"
       /\ resp.cause \in {"Batch not available", "Insufficient wallet balance"}) =>
        /\ resp.status = 400
        /\ resp.detail = resp.cause

\* C14: whatever unit count is requested (zero and negatives included), a
\* purchase never raises the wallet balance, so that the balance never
\* exceeds the opening balance and the deposits, and never creates an
\* investment whose principal is zero or negative: every purchased
\* investment is eligible for a payout.
C14_PurchaseNeverCreditsNorCreatesNonPositive ==
    /\ (wallet # NULL /\ finite(deposited)) =>
           Val(wallet) <= opening + deposited
    /\ \A i \in 1..Len(investments) :
          /\ investments[i].amount # NULL
          /\ Val(investments[i].amount) > 0
    /\ Eligible(investments) = investments

\* A successful execute without override over a batch whose investments
\* all have a strictly positive principal has answered.
ExecutedAllPositive ==
    /\ resp.op = "execute" /\ resp.status = 200 /\ resp.override = NULL
    /\ Eligible(Read(resp.nread)) = Read(resp.nread)

\* What simulate_payout_for_batch may return for the batch execute read.
SimulatedTotals ==
    simulate_payout_for_batch(Read(resp.nread), Val(batch.expected_roi))

\* C15 (as stated): for a batch whose investments all have a strictly
\* positive principal and whose expected_roi is set, the sum of the payout
\* amounts created by execute_payout_for_batch without override equals the
\* total simulate_payout_for_batch returns for the same batch.
C15_ExecuteSumEqualsSimulatedTotal ==
    ExecutedAllPositive =>
        \A t \in SimulatedTotals : SumAmounts(resp.created) = t

\* C15 (amended): for such a batch of n investments the sum of the payout
\* amounts created without override differs from the simulated total by at
\* most (n + 1) / 2 cents, each payout being rounded separately and the
\* simulation rounding the sum only; for one investment the two are equal.
C15_ExecuteSumNearSimulatedTotal ==
    ExecutedAllPositive =>
        \A t \in SimulatedTotals :
            /\ Len(resp.created) = resp.nread
            /\ 100 * (SumAmounts(resp.created) - t)
                  \in -50 * (resp.nread + 1) .. 50 * (resp.nread + 1)
            /\ resp.nread = 1 => SumAmounts(resp.created) = t

\* C15 witness: an execute without override over two positive principals
\* whose payouts sum to more than the simulated total of the batch.
C15_Witness ==
    /\ ExecutedAllPositive
    /\ resp.nread = 2 /\ Len(resp.created) = 2
    /\ \E t \in SimulatedTotals : t > 0 /\ SumAmounts(resp.created) > t
====
